---- MODULE Spec2Model ----
(***************************************************************************)
(* guten-book-haven.  The reader view (BookReader): loading a Project      *)
(* Gutenberg text, the default jump to the first chapter, and the "Jump to *)
(* Chapter" box; the row-level security of the user_books table; the       *)
(* search-books edge function; the sign-up form (AuthForm).  Strings are   *)
(* TLA+ strings; every index below is a JavaScript index (0-based,         *)
(* end-exclusive).                                                         *)
(***************************************************************************)
EXTENDS Integers, Sequences, FiniteSets, TLC

VARIABLES
    book,             \* the book prop: [format, content served by fetch-book-content]
    fullBookContent,  \* useState<string>("")
    bookContent,      \* useState<string>("")
    chapterInput,     \* useState<string>("")
    isLoading,        \* useState(false)
    toast,            \* the last toast shown: [title, description]
    handler,          \* the handler that ran last ("" before any)
    query,            \* chapterInput as the jumpToChapter call that just returned read it
    chapterNum,       \* local of the jumpToChapter call that just returned (-1: unassigned)
    romanNumeral,     \* local of the jumpToChapter call that just returned
    allMatches,       \* local of that call, as collected (before it is sorted)
    bestMatch,        \* local of that call
    sample,           \* history: the first jumpToChapter call and its outcome
    user_books,       \* the rows of public.user_books
    statement,        \* the last SQL statement run on user_books and what it did
    request,          \* search-books: the request being served
    pc,               \* search-books: where the handler stands
    attempt,          \* search-books: the loop variable of the retry loop
    fetchCount,       \* search-books: the calls of fetch made for this request
    response,         \* search-books: the local response ([status], or NoResponse)
    data,             \* search-books: the results of response.json()
    reply,            \* search-books: the Response returned to the caller
    formData,         \* AuthForm: useState({username, email, password})
    authIsLoading,    \* AuthForm: useState(false)
    authToast,        \* AuthForm: the title of the last toast shown
    signUps           \* the calls of supabase.auth.signUp made so far

readerVars == <<book, fullBookContent, bookContent, chapterInput, isLoading, toast,
                handler, query, chapterNum, romanNumeral, allMatches, bestMatch, sample>>
tableVars == <<user_books, statement>>
searchVars == <<request, pc, attempt, fetchCount, response, data, reply>>
authVars == <<formData, authIsLoading, authToast, signUps>>

vars == <<readerVars, tableVars, searchVars, authVars>>

----------------------------------------------------------------------------
(* JavaScript string primitives *)

MinOf(a, b) == IF a < b THEN a ELSE b
MaxOf(a, b) == IF a > b THEN a ELSE b

\* the least and the greatest of a set of indices, -1 for the empty set
First(S) == IF S = {} THEN -1 ELSE CHOOSE p \in S : \A q \in S : p <= q
Last(S) == IF S = {} THEN -1 ELSE CHOOSE p \in S : \A q \in S : q <= p

\* s[k], "" standing for undefined (k out of range)
CharAt(s, k) == IF k >= 0 /\ k < Len(s) THEN SubSeq(s, k + 1, k + 1) ELSE ""

Clamp(n, len) == IF n < 0 THEN 0 ELSE IF n > len THEN len ELSE n

\* the characters x .. y-1 of s, for 0 <= x and y <= Len(s)
Slice(s, x, y) == IF x >= y THEN "" ELSE SubSeq(s, x + 1, y)

\* String.prototype.substring(a, b)
Substring(s, a, b) ==
    Slice(s, Clamp(MinOf(a, b), Len(s)), Clamp(MaxOf(a, b), Len(s)))

LowerLetters == "abcdefghijklmnopqrstuvwxyz"
UpperLetters == "ABCDEFGHIJKLMNOPQRSTUVWXYZ"
Digits == "0123456789"
LowerSet == {CharAt(LowerLetters, k) : k \in 0..25}
UpperSet == {CharAt(UpperLetters, k) : k \in 0..25}
DigitSet == {CharAt(Digits, k) : k \in 0..9}

\* String.prototype.toUpperCase on one character
UpperOf == [c \in LowerSet |->
              CharAt(UpperLetters, CHOOSE k \in 0..25 : CharAt(LowerLetters, k) = c)]
ToUpperChar(c) == IF c \in DOMAIN UpperOf THEN UpperOf[c] ELSE c

RECURSIVE ToUpperCase(_)
ToUpperCase(s) ==
    IF s = "" THEN ""
    ELSE ToUpperChar(CharAt(s, 0)) \o ToUpperCase(Slice(s, 1, Len(s)))

\* the regular-expression classes \s, \d, \w and the line terminators of $
IsSpace(c) == c \in {" ", "\n", "\r", "\t"}
IsDigit(c) == c \in DigitSet
IsWord(c) == c \in LowerSet \/ c \in UpperSet \/ c \in DigitSet \/ c = "_"
IsLineTerminator(c) == c \in {"\n", "\r"}

RECURSIVE SkipSpaces(_, _)
\* the index of the first non-space character at or after k (Len(s) if none)
SkipSpaces(s, k) ==
    IF k < Len(s) /\ IsSpace(CharAt(s, k)) THEN SkipSpaces(s, k + 1) ELSE k

RECURSIVE BackSpaces(_, _)
\* the end (exclusive) of s[0..k) once its trailing spaces are dropped
BackSpaces(s, k) ==
    IF k > 0 /\ IsSpace(CharAt(s, k - 1)) THEN BackSpaces(s, k - 1) ELSE k

\* String.prototype.trim
Trim(s) == Slice(s, SkipSpaces(s, 0), BackSpaces(s, Len(s)))

\* the literal lit occurs in s at index k (ci: under the i flag)
LitAt(s, k, lit, ci) ==
    /\ k >= 0
    /\ k + Len(lit) <= Len(s)
    /\ IF ci THEN ToUpperCase(Slice(s, k, k + Len(lit))) = ToUpperCase(lit)
             ELSE Slice(s, k, k + Len(lit)) = lit

\* String.prototype.indexOf(lit, from): -1 when absent
IndexOf(s, lit, from) ==
    First({p \in Clamp(from, Len(s))..(Len(s) - Len(lit)) : LitAt(s, p, lit, FALSE)})

\* indexOf under the i flag (the literal part of a case-insensitive regex)
IndexOfCI(s, lit, from) ==
    First({p \in Clamp(from, Len(s))..(Len(s) - Len(lit)) : LitAt(s, p, lit, TRUE)})

RECURSIVE SplitCount(_, _, _)
\* String.prototype.split(sep).length, counting from index `from`
SplitCount(s, sep, from) ==
    LET Pieces(p) == IF p = -1 THEN 1 ELSE 1 + SplitCount(s, sep, p + Len(sep))
    IN  Pieces(IndexOf(s, sep, from))

RECURSIVE ParseInt(_)
\* parseInt(s, 10) of a string of decimal digits
ParseInt(s) ==
    IF Len(s) = 0 THEN 0
    ELSE 10 * ParseInt(Slice(s, 0, Len(s) - 1))
         + (CHOOSE d \in 0..9 : CharAt(Digits, d) = CharAt(s, Len(s) - 1))

RECURSIVE NumberToString(_)
\* the template-literal conversion `${n}` of a non-negative integer
NumberToString(n) ==
    IF n < 10 THEN CharAt(Digits, n)
    ELSE NumberToString(n \div 10) \o CharAt(Digits, n % 10)

----------------------------------------------------------------------------
(* The heading regular expressions.  A pattern is the record                *)
(*   \n \s* [word \s+] numeral tail   with flags g, i, m                    *)
(* where numeral is an alternation of literals (lits, in source order) or a *)
(* character class repeated with + (class), and tail is \b ("b"),           *)
(* \.\s*$ ("dot") or \s*$ ("bare").                                         *)

RomanSymbols == {"I", "V", "X", "L", "C", "D", "M"}

Pattern(word, lits, class, tail, g, i, m) ==
    [word |-> word, lits |-> lits, class |-> class, tail |-> tail,
     g |-> g, i |-> i, m |-> m]

InClass(c, class, ci) ==
    IF class = "roman" THEN (IF ci THEN ToUpperChar(c) ELSE c) \in RomanSymbols
    ELSE IF class = "digit" THEN IsDigit(c)
    ELSE FALSE

RECURSIVE ClassRun(_, _, _, _)
\* the length of the longest run of class characters of s starting at k
ClassRun(s, k, class, ci) ==
    IF k < Len(s) /\ InClass(CharAt(s, k), class, ci)
    THEN 1 + ClassRun(s, k + 1, class, ci)
    ELSE 0

NonNegative(x) == x >= 0

\* the first element of a sequence of indices, -1 for the empty sequence
FirstOf(seq) == IF seq = <<>> THEN -1 ELSE seq[1]

\* the ends the numeral part can have when it starts at k, in the order the
\* regular-expression engine tries them (alternatives left to right; a class
\* run greedily, longest first)
NumeralEnds(s, k, pat) ==
    LET Shrinking(r) == [n \in 1..r |-> k + r - n + 1]
    IN  IF pat.class = ""
        THEN SelectSeq([n \in 1..Len(pat.lits) |->
                          IF LitAt(s, k, pat.lits[n], pat.i)
                          THEN k + Len(pat.lits[n]) ELSE -1],
                       NonNegative)
        ELSE Shrinking(ClassRun(s, k, pat.class, pat.i))

\* \b at index e
WordBoundary(s, e) == IsWord(CharAt(s, e - 1)) # IsWord(CharAt(s, e))

\* \s*$ starting at p: the end of the match, -1 if it fails
LineEnd(s, p, m) ==
    Last({r \in p..SkipSpaces(s, p) :
             r = Len(s) \/ (m /\ IsLineTerminator(CharAt(s, r)))})

TailEnd(s, e, pat) ==
    IF pat.tail = "b" THEN (IF WordBoundary(s, e) THEN e ELSE -1)
    ELSE IF pat.tail = "dot"
         THEN (IF CharAt(s, e) = "." THEN LineEnd(s, e + 1, pat.m) ELSE -1)
    ELSE LineEnd(s, e, pat.m)

\* the index where the numeral starts when the word of pat (if it has one)
\* starts at j: after the word and the spaces behind it; -1 if it is not there
AfterWord(s, j, pat) ==
    IF pat.word = "" THEN j
    ELSE IF LitAt(s, j, pat.word, pat.i) /\ IsSpace(CharAt(s, j + Len(pat.word)))
         THEN SkipSpaces(s, j + Len(pat.word))
         ELSE -1

\* the ends of the whole match for the numeral ends `ends`, in their order
TailEnds(s, ends, pat) ==
    SelectSeq([n \in 1..Len(ends) |-> TailEnd(s, ends[n], pat)], NonNegative)

\* the end (exclusive) of the match of pat that starts at index i, -1 if none
MatchEndAt(s, i, pat) ==
    LET NumeralFrom(k) ==
            IF k = -1 THEN -1 ELSE FirstOf(TailEnds(s, NumeralEnds(s, k, pat), pat))
    IN  IF CharAt(s, i) # "\n" THEN -1
        ELSE NumeralFrom(AfterWord(s, SkipSpaces(s, i + 1), pat))

MatchStarts(s, pat) ==
    {i \in 0..(Len(s) - 1) : CharAt(s, i) = "\n" /\ MatchEndAt(s, i, pat) >= 0}

RECURSIVE ScanFrom(_, _, _, _)
\* the successive non-overlapping matches of pat in s, leftmost first; each
\* is [index, text] as in a RegExp match object
ScanFrom(s, pat, starts, from) ==
    LET Matched(i, e) ==
            <<[index |-> i, text |-> Slice(s, i, e)]>> \o ScanFrom(s, pat, starts, e)
        StartingAt(i) == IF i = -1 THEN <<>> ELSE Matched(i, MatchEndAt(s, i, pat))
    IN  StartingAt(First({i \in starts : i >= from}))

RegExpMatches(s, pat) == ScanFrom(s, pat, MatchStarts(s, pat), 0)

\* String.prototype.matchAll(pat): a TypeError unless pat has the g flag
MatchAll(s, pat) ==
    IF pat.g THEN [threw |-> FALSE, matches |-> RegExpMatches(s, pat)]
    ELSE [threw |-> TRUE, matches |-> <<>>]

\* String.prototype.match(pat): with the g flag the array of matched texts,
\* which has no index property; without it the first match, with its index
StringMatch(s, pat) ==
    LET Result(all) ==
            IF all = <<>> THEN [found |-> FALSE, hasIndex |-> FALSE, index |-> -1]
            ELSE IF pat.g THEN [found |-> TRUE, hasIndex |-> FALSE, index |-> -1]
            ELSE [found |-> TRUE, hasIndex |-> TRUE, index |-> all[1].index]
    IN  Result(RegExpMatches(s, pat))

----------------------------------------------------------------------------
(* Parsing the chapter identifier *)

romanMap == [c \in RomanSymbols |->
               CASE c = "I" -> 1 [] c = "V" -> 5 [] c = "X" -> 10 [] c = "L" -> 50
                 [] c = "C" -> 100 [] c = "D" -> 500 [] c = "M" -> 1000]

\* a lookup that takes any other character for a unit
RomanValueLenient(c) == IF c \in RomanSymbols THEN romanMap[c] ELSE 1

\* romanMap[c] with 0 standing for undefined
RomanValue(c) == IF c \in RomanSymbols THEN romanMap[c] ELSE 0

\* a comparison that also subtracts a symbol from its equal
SubtractsEqual(current, next) == next # 0 /\ current <= next

\* if (next && current < next): the symbol at i is subtracted
Subtracts(current, next) == next # 0 /\ current < next

RECURSIVE RomanLoop(_, _, _)
\* the for loop of romanToInt from index i on, result being its accumulator
RomanLoop(upperRoman, i, result) ==
    LET Body(current, next) ==
            IF current = 0 THEN [threw |-> TRUE, value |-> 0]
            ELSE IF Subtracts(current, next)
                 THEN RomanLoop(upperRoman, i + 1, result - current)
                 ELSE RomanLoop(upperRoman, i + 1, result + current)
    IN  IF i >= Len(upperRoman) THEN [threw |-> FALSE, value |-> result]
        ELSE Body(RomanValue(CharAt(upperRoman, i)), RomanValue(CharAt(upperRoman, i + 1)))

\* roman.toUpperCase().trim()
UpperRoman(roman) == Trim(ToUpperCase(roman))

romanToInt(roman) == RomanLoop(UpperRoman(roman), 0, 0)

AllInClass(s, class, ci) == Len(s) > 0 /\ ClassRun(s, 0, class, ci) = Len(s)

\* searchInput.match(/^chapter\s*(\d+|[ivxlcdm]+)$/i): the group, "" if no match
ChapterPrefixGroup(searchInput) ==
    LET Group(rest) ==
            IF AllInClass(rest, "digit", TRUE) \/ AllInClass(rest, "roman", TRUE)
            THEN rest ELSE ""
    IN  IF ~LitAt(searchInput, 0, "chapter", TRUE) THEN ""
        ELSE Group(Slice(searchInput, SkipSpaces(searchInput, 7), Len(searchInput)))

\* the identifier once the "Chapter X" form is reduced to X
SearchInput(input) ==
    LET Reduced(trimmed, group) == IF group # "" THEN group ELSE trimmed
        Trimmed(trimmed) == Reduced(trimmed, ChapterPrefixGroup(trimmed))
    IN  Trimmed(Trim(input))

\* chapterNum and romanNumeral as jumpToChapter assigns them
ParseIdentifier(input) ==
    LET Roman(searchInput, r) ==
            IF r.threw
            THEN [threw |-> TRUE, chapterNum |-> -1, romanNumeral |-> ""]
            ELSE [threw |-> FALSE, chapterNum |-> r.value,
                  romanNumeral |-> ToUpperCase(searchInput)]
        Parsed(searchInput) ==
            IF AllInClass(searchInput, "digit", FALSE)
            THEN [threw |-> FALSE, chapterNum |-> ParseInt(searchInput),
                  romanNumeral |-> ""]
            ELSE Roman(searchInput, romanToInt(searchInput))
    IN  Parsed(SearchInput(input))

----------------------------------------------------------------------------
(* Scoring the candidates *)

ProbeLength == 1000
MaxProbeLines == 15
LongLine == 60
MediumLine == 30

LinePoints(lineLength) ==
    IF lineLength > LongLine THEN 2 ELSE IF lineLength > MediumLine THEN 1 ELSE 0

RECURSIVE LineScore(_, _, _)
\* the for loop over lines = testText.split('\n'): line i starts at lineStart;
\* lines 1 .. Math.min(lines.length, 15) - 1 are scored
LineScore(testText, lineStart, i) ==
    LET Points(lineEnd) ==
            IF i >= 1 THEN LinePoints(Len(Trim(Slice(testText, lineStart, lineEnd))))
            ELSE 0
        Line(nl) ==
            IF nl = -1 THEN Points(Len(testText))
            ELSE Points(nl) + LineScore(testText, nl + 1, i + 1)
    IN  IF i >= MaxProbeLines THEN 0
        ELSE Line(IndexOf(testText, "\n", lineStart))

\* /[.!?]\s+[A-Z]/.test(testText); lowerToo for /[.!?]\s+[A-Za-z]+/
HasSentence(testText, lowerToo) ==
    \E p \in 0..(Len(testText) - 1) :
        /\ CharAt(testText, p) \in {".", "!", "?"}
        /\ IsSpace(CharAt(testText, p + 1))
        /\ \/ CharAt(testText, SkipSpaces(testText, p + 1)) \in UpperSet
           \/ lowerToo /\ CharAt(testText, SkipSpaces(testText, p + 1)) \in LowerSet

\* proseScore of a match at index in jumpToChapter
ProseScore(content, index) ==
    LET Score(testText) ==
            LineScore(testText, 0, 0)
            + (IF SplitCount(testText, "\n\n", 0) > 2 THEN 5 ELSE 0)
            + (IF HasSentence(testText, FALSE) THEN 3 ELSE 0)
    IN  Score(Substring(content, index, index + ProbeLength))

\* proseScore of a match at index in jumpToFirstChapter
FirstChapterProseScore(content, index) ==
    LET Score(testText) ==
            LineScore(testText, 0, 0)
            + (IF SplitCount(testText, "\n\n", 0) > 1 THEN 5 ELSE 0)
            + (IF HasSentence(testText, TRUE) THEN 3 ELSE 0)
    IN  Score(Substring(content, index, index + ProbeLength))

----------------------------------------------------------------------------
(* Collecting and ranking the candidates *)

RECURSIVE ScoredMatches(_, _, _, _)
\* allMatches.push({index, pattern: match[0], score}) for the matches n.. of one
\* pattern; first selects the scoring of jumpToFirstChapter
ScoredMatches(content, matches, n, first) ==
    IF n > Len(matches) THEN <<>>
    ELSE <<[index |-> matches[n].index,
            pattern |-> matches[n].text,
            score |-> IF first THEN FirstChapterProseScore(content, matches[n].index)
                      ELSE ProseScore(content, matches[n].index)]>>
         \o ScoredMatches(content, matches, n + 1, first)

RECURSIVE AllMatchesFrom(_, _, _, _)
\* the loop "for (const pattern of patterns)" from pattern n on: allMatches, or
\* the TypeError of matchAll
AllMatchesFrom(content, patterns, n, first) ==
    LET Joined(scored, rest) == [threw |-> rest.threw, list |-> scored \o rest.list]
        Matched(r) ==
            IF r.threw THEN [threw |-> TRUE, list |-> <<>>]
            ELSE Joined(ScoredMatches(content, r.matches, 1, first),
                        AllMatchesFrom(content, patterns, n + 1, first))
    IN  IF n > Len(patterns) THEN [threw |-> FALSE, list |-> <<>>]
        ELSE Matched(MatchAll(content, patterns[n]))

\* a comparison under which a later candidate overtakes its equals
SortsBeforeOrTies(a, b) == b.score - a.score <= 0

\* the comparator (a, b) => b.score - a.score is negative: a sorts before b
SortsBefore(a, b) == b.score - a.score < 0

RECURSIVE InsertByScore(_, _)
\* x, which preceded every element of sorted in allMatches, put in its place
InsertByScore(x, sorted) ==
    IF sorted = <<>> THEN <<x>>
    ELSE IF SortsBefore(Head(sorted), x)
         THEN <<Head(sorted)>> \o InsertByScore(x, Tail(sorted))
         ELSE <<x>> \o sorted

RECURSIVE SortByScore(_)
\* allMatches.sort((a, b) => b.score - a.score); Array.prototype.sort is stable
SortByScore(matches) ==
    IF matches = <<>> THEN <<>>
    ELSE InsertByScore(Head(matches), SortByScore(Tail(matches)))

NoMatch == [index |-> -1, pattern |-> "", score |-> 0]

----------------------------------------------------------------------------
(* jumpToChapter *)

MinGap == 300

\* the patterns if the decimal forms alone were built
ChapterPatternsOfNumber(num, roman) ==
    LET Forms(tok) ==
          << Pattern("CHAPTER", <<tok>>, "", "b", TRUE, TRUE, FALSE),
             Pattern("Chapter", <<tok>>, "", "b", TRUE, TRUE, FALSE),
             Pattern("", <<tok>>, "", "dot", TRUE, TRUE, TRUE),
             Pattern("", <<tok>>, "", "bare", TRUE, TRUE, TRUE) >>
    IN  Forms(NumberToString(num))

\* allChapterPatterns: the Roman forms first when the identifier is Roman
ChapterPatterns(num, roman) ==
    LET Forms(tok) ==
          << Pattern("CHAPTER", <<tok>>, "", "b", TRUE, TRUE, FALSE),
             Pattern("Chapter", <<tok>>, "", "b", TRUE, TRUE, FALSE),
             Pattern("", <<tok>>, "", "dot", TRUE, TRUE, TRUE),
             Pattern("", <<tok>>, "", "bare", TRUE, TRUE, TRUE) >>
    IN  (IF roman # "" THEN Forms(roman) ELSE <<>>) \o Forms(NumberToString(num))

\* nextChapterPatterns of jumpToChapter
NextChapterPatterns ==
    << Pattern("CHAPTER", <<>>, "roman", "b", TRUE, TRUE, FALSE),
       Pattern("Chapter", <<>>, "roman", "b", TRUE, TRUE, FALSE),
       Pattern("CHAPTER", <<>>, "digit", "b", TRUE, TRUE, FALSE),
       Pattern("Chapter", <<>>, "digit", "b", TRUE, TRUE, FALSE),
       Pattern("", <<>>, "roman", "dot", TRUE, TRUE, TRUE),
       Pattern("", <<>>, "roman", "bare", TRUE, TRUE, TRUE),
       Pattern("", <<>>, "digit", "dot", TRUE, TRUE, TRUE) >>

RECURSIVE ChapterEndIndex(_, _, _)
\* the loop "for (const pattern of nextChapterPatterns)" from pattern n on:
\* the index of the first pattern's match that has an index beyond MinGap
ChapterEndIndex(text, patterns, n) ==
    LET Tried(nextMatch) ==
            IF nextMatch.found /\ nextMatch.hasIndex /\ nextMatch.index > MinGap
            THEN nextMatch.index
            ELSE ChapterEndIndex(text, patterns, n + 1)
    IN  IF n > Len(patterns) THEN Len(text)
        ELSE Tried(StringMatch(text, patterns[n]))

EmptyInputToast ==
    [title |-> "Invalid Input",
     description |-> "Please enter a chapter number (e.g., I, II, III, or 1, 2, 3)."]
LoadFirstToast ==
    [title |-> "Load Book First",
     description |-> "Please load the book content before jumping to a chapter."]
InvalidRomanToast ==
    [title |-> "Invalid Input", description |-> "Invalid Roman numeral"]
\* (the two descriptions below interpolate chapterInput; the toast records the
\* template only)
NotFoundToast ==
    [title |-> "Chapter Not Found",
     description |-> "Could not find chapter ${chapterInput} in the book."]
FoundToast ==
    [title |-> "Chapter Found", description |-> "Displaying chapter ${chapterInput}."]

\* the outcome of a call that returns early: a toast and nothing else
Quiet(t) ==
    [toast |-> t, shows |-> FALSE, slice |-> "", clears |-> FALSE,
     chapterNum |-> -1, romanNumeral |-> "", allMatches |-> <<>>, bestMatch |-> NoMatch]

\* a not-found branch that falls back to displaying the whole document
NotFoundFallback(full, id) ==
    [Quiet(NotFoundToast) EXCEPT !.chapterNum = id.chapterNum,
                                 !.romanNumeral = id.romanNumeral,
                                 !.shows = TRUE,
                                 !.slice = full]

\* if (allMatches.length === 0): the toast, and return
NotFoundOutcome(full, id) ==
    [Quiet(NotFoundToast) EXCEPT !.chapterNum = id.chapterNum,
                                 !.romanNumeral = id.romanNumeral]

\* the rest of jumpToChapter once allMatches is not empty
FoundOutcome(full, id, found) ==
    LET Shown(best, contentFromChapterStart) ==
            [toast |-> FoundToast,
             shows |-> TRUE,
             slice |-> Trim(Substring(contentFromChapterStart, 0,
                                      ChapterEndIndex(contentFromChapterStart,
                                                      NextChapterPatterns, 1))),
             clears |-> TRUE,
             chapterNum |-> id.chapterNum,
             romanNumeral |-> id.romanNumeral,
             allMatches |-> found,
             bestMatch |-> best]
        Chosen(best) ==
            Shown(best, Substring(full, best.index + Len(best.pattern), Len(full)))
    IN  Chosen(SortByScore(found)[1])

\* what one call of jumpToChapter does, given the state it reads: the toast,
\* whether bookContent is set (and to what), whether the input is cleared,
\* and the locals it assigned
JumpOutcome(input, full) ==
    LET Scanned(id, found) ==
            IF found.list = <<>> THEN NotFoundOutcome(full, id)
            ELSE FoundOutcome(full, id, found.list)
        Identified(id) ==
            IF id.threw THEN Quiet(InvalidRomanToast)
            ELSE Scanned(id, AllMatchesFrom(full,
                                 ChapterPatterns(id.chapterNum, id.romanNumeral),
                                 1, FALSE))
    IN  IF Trim(input) = "" THEN Quiet(EmptyInputToast)
        ELSE IF full = "" THEN Quiet(LoadFirstToast)
        ELSE Identified(ParseIdentifier(input))

----------------------------------------------------------------------------
(* jumpToFirstChapter *)

DefaultPrefix == 10000

\* chapterPatterns of jumpToFirstChapter (none has the g flag)
FirstChapterPatterns ==
    << Pattern("CHAPTER", <<"I", "1", "One", "ONE">>, "", "b", FALSE, TRUE, FALSE),
       Pattern("Chapter", <<"I", "1", "One">>, "", "b", FALSE, TRUE, FALSE),
       Pattern("", <<"I", "1">>, "", "dot", FALSE, FALSE, TRUE),
       Pattern("", <<"I", "1">>, "", "bare", FALSE, FALSE, TRUE) >>

\* nextChapterPatterns of jumpToFirstChapter
SecondChapterPatterns ==
    << Pattern("CHAPTER", <<"II", "2", "Two", "TWO">>, "", "b", FALSE, TRUE, FALSE),
       Pattern("Chapter", <<"II", "2", "Two">>, "", "b", FALSE, TRUE, FALSE),
       Pattern("", <<"II", "2">>, "", "dot", FALSE, FALSE, TRUE),
       Pattern("", <<"II", "2">>, "", "bare", FALSE, FALSE, TRUE) >>

NoChaptersToast ==
    [title |-> "Book Loaded",
     description |-> "No chapters detected. Showing book content."]
FirstChapterToast ==
    [title |-> "Book Loaded", description |-> "Starting at Chapter 1."]

\* what jumpToFirstChapter(content) does: it throws, or sets bookContent to
\* slice and shows toast
FirstChapterOutcome(content) ==
    LET Shown(contentFromStart) ==
            [threw |-> FALSE,
             slice |-> Trim(Substring(contentFromStart, 0,
                                      ChapterEndIndex(contentFromStart,
                                                      SecondChapterPatterns, 1))),
             toast |-> FirstChapterToast]
        Scanned(found) ==
            IF found.threw THEN [threw |-> TRUE, slice |-> "", toast |-> NoChaptersToast]
            ELSE IF found.list = <<>>
            THEN [threw |-> FALSE,
                  slice |-> Substring(content, 0, MinOf(DefaultPrefix, Len(content))),
                  toast |-> NoChaptersToast]
            ELSE Shown(Substring(content, SortByScore(found.list)[1].index, Len(content)))
    IN  Scanned(AllMatchesFrom(content, FirstChapterPatterns, 1, TRUE))

----------------------------------------------------------------------------
(* loadBookContent *)

RECURSIVE RemoveElements(_, _, _)
\* content.replace(/<tag[^>]*>.*?<\/tag>/gis, '') from index `from` on
RemoveElements(s, tag, from) ==
    LET Closed(open, close) ==
            IF close = -1 THEN Slice(s, from, Len(s))
            ELSE Slice(s, from, open) \o RemoveElements(s, tag, close + Len(tag) + 3)
        Opened(open, gt) ==
            Closed(open, IF gt = -1 THEN -1
                         ELSE IndexOfCI(s, "</" \o tag \o ">", gt + 1))
        Element(open) ==
            Opened(open, IF open = -1 THEN -1
                         ELSE IndexOf(s, ">", open + 1 + Len(tag)))
    IN  Element(IndexOfCI(s, "<" \o tag, from))

RECURSIVE TagStart(_, _)
\* the index of the first match of /<[^>]+>/ at or after `from`, -1 if none
TagStart(s, from) ==
    LET Bracket(lt) ==
            IF lt = -1 \/ lt + 1 >= Len(s) THEN -1
            ELSE IF CharAt(s, lt + 1) = ">" THEN TagStart(s, lt + 1)
            ELSE IF IndexOf(s, ">", lt + 1) = -1 THEN -1
            ELSE lt
    IN  Bracket(IndexOf(s, "<", from))

RECURSIVE ReplaceTags(_, _)
\* content.replace(/<[^>]+>/g, ' ') from index `from` on
ReplaceTags(s, from) ==
    LET Tag(lt) ==
            IF lt = -1 THEN Slice(s, from, Len(s))
            ELSE Slice(s, from, lt) \o " " \o ReplaceTags(s, IndexOf(s, ">", lt + 1) + 1)
    IN  Tag(TagStart(s, from))

RECURSIVE CollapseSpaces(_, _)
\* content.replace(/\s+/g, ' ') from index `from` on
CollapseSpaces(s, from) ==
    LET Run(p) ==
            IF p = -1 THEN Slice(s, from, Len(s))
            ELSE Slice(s, from, p) \o " " \o CollapseSpaces(s, SkipSpaces(s, p))
    IN  Run(First({p \in from..(Len(s) - 1) : IsSpace(CharAt(s, p))}))

\* the clean-up of HTML content
StripHtml(content) ==
    Trim(CollapseSpaces(
            ReplaceTags(RemoveElements(RemoveElements(content, "style", 0), "script", 0),
                        0),
            0))

startMarkers == << "*** START OF THE PROJECT GUTENBERG EBOOK",
                   "*** START OF THIS PROJECT GUTENBERG EBOOK" >>
endMarkers == << "*** END OF THE PROJECT GUTENBERG EBOOK",
                 "*** END OF THIS PROJECT GUTENBERG EBOOK" >>

\* the body of "for (const marker of startMarkers)" for one marker
CutStart(content, marker) ==
    LET Cut(lineEnd) ==
            IF lineEnd = -1 THEN content
            ELSE Substring(content, lineEnd + 1, Len(content))
        Marked(startIndex) ==
            Cut(IF startIndex = -1 THEN -1 ELSE IndexOf(content, "\n", startIndex))
    IN  Marked(IndexOf(content, marker, 0))

\* the body of "for (const marker of endMarkers)" for one marker
CutEnd(content, marker) ==
    LET Cut(endIndex) ==
            IF endIndex = -1 THEN content ELSE Substring(content, 0, endIndex)
    IN  Cut(IndexOf(content, marker, 0))

\* trimmedContent, from the format key and data.content
TrimmedContent(format, content) ==
    Trim(CutEnd(CutEnd(CutStart(CutStart(IF IndexOf(format, "html", 0) # -1
                                         THEN StripHtml(content) ELSE content,
                                         startMarkers[1]),
                                startMarkers[2]),
                       endMarkers[1]),
                endMarkers[2]))

FetchErrorToast ==
    [title |-> "Loading Error", description |-> "Failed to fetch book content"]
\* the catch block's toast for the TypeError of matchAll
MatchAllErrorToast ==
    [title |-> "Loading Error",
     description |-> "String.prototype.matchAll called with a non-global RegExp argument"]

----------------------------------------------------------------------------
(* The books the reader is opened on and the identifiers typed *)

RECURSIVE Rep(_, _)
\* s repeated n times
Rep(s, n) ==
    IF n = 0 THEN ""
    ELSE IF n % 2 = 0 THEN LET Twice(h) == h \o h IN Twice(Rep(s, n \div 2))
    ELSE s \o Rep(s, n - 1)

ProseLine == "It was a bright cold day in April, and the clocks were striking thirteen.\n"
SentenceLine == "Nobody spoke. The fire had burned low and the room was growing cold again.\n"
DateLine == "He kept the letter dated 3 March in his coat and read it over once more that day.\n"

MaxParas == 2
LinesPerPara == 3
LongTextLines == 140
ContentsParas == 5

\* one paragraph: hard-wrapped lines, or (unwrapped) the same sentences on a
\* single line; a blank line follows it
Paragraph(wrapped) ==
    IF wrapped THEN SentenceLine \o Rep(ProseLine, LinesPerPara - 1) \o "\n"
    ELSE "Nobody spoke. The fire had burned low and the room was growing cold again."
         \o Rep(" It was a bright cold day in April, and the clocks were striking thirteen.",
                LinesPerPara - 1)
         \o "\n\n"

Prose(paras, wrapped) == Rep(Paragraph(wrapped), paras)

\* a chapter: its heading line, a blank line, its opening line and its prose
Chapter(heading, opening, paras, wrapped) ==
    heading \o "\n\n" \o opening \o Prose(paras, wrapped)

GutenbergHeader ==
    "The Project Gutenberg eBook of A Tale\n\n"
    \o "*** START OF THE PROJECT GUTENBERG EBOOK A TALE ***\n\n"
GutenbergFooter ==
    "\n*** END OF THE PROJECT GUTENBERG EBOOK A TALE ***\n\nUpdated editions will replace the previous one.\n"

\* a five-chapter text with decimal headings; chapter 3 opens with a date
DecimalBook(paras) ==
    Chapter("CHAPTER 1", "", paras, TRUE)
    \o Chapter("CHAPTER 2", "", paras, TRUE)
    \o Chapter("CHAPTER 3", DateLine, paras, TRUE)
    \o Chapter("CHAPTER 4", "", paras, TRUE)
    \o Chapter("CHAPTER 5", "", paras, TRUE)

\* a text whose chapters are headed by a bare number, the third one also by
\* its name
NumberedBook(paras) ==
    Chapter("1", "", paras, TRUE)
    \o Chapter("2", "", paras, TRUE)
    \o Chapter("3\n\nCHAPTER 3", "", paras, TRUE)

\* a three-chapter text with Roman headings and a table of contents, placed
\* before the first chapter or after the last
RomanBook(wrapped) ==
    Chapter("Chapter I", "", ContentsParas, wrapped)
    \o Chapter("Chapter II", "", ContentsParas, wrapped)
    \o Chapter("Chapter III", "", ContentsParas, wrapped)

Contents == "CONTENTS\n\nChapter I\nChapter II\nChapter III\n\n"

Texts ==
    UNION { { "A SHORT TALE\n\n" \o Prose(p, TRUE),
              "A TALE\n\n" \o DecimalBook(p),
              DecimalBook(p),
              "A TALE\n\n" \o NumberedBook(p) } : p \in 1..MaxParas }
    \cup UNION { { "A TALE\n\n" \o Contents \o RomanBook(w),
                   "A TALE\n\n" \o RomanBook(w) \o Contents } : w \in BOOLEAN }
    \cup { "A LONG TALE\n\n" \o Rep(ProseLine, LongTextLines) }

HtmlText ==
    "<html><head><style>p { margin: 0 }</style></head><body>\n"
    \o "<h2>CHAPTER 1</h2>\n<p>Nobody spoke. The fire had burned low.</p>\n"
    \o "<h2>CHAPTER 2</h2>\n<p>It was a bright cold day.</p>\n</body></html>\n"

\* an HTML edition with the Project Gutenberg header and footer in its body
GutenbergHtml ==
    "<html><head><style>p { margin: 0 }</style></head><body>\n"
    \o "<p>The Project Gutenberg eBook of A Tale</p>\n"
    \o "<p>*** START OF THE PROJECT GUTENBERG EBOOK A TALE ***</p>\n"
    \o "<h2>CHAPTER 1</h2>\n<p>Nobody spoke. The fire had burned low.</p>\n"
    \o "<p>*** END OF THE PROJECT GUTENBERG EBOOK A TALE ***</p>\n"
    \o "<p>Updated editions will replace the previous one.</p>\n</body></html>\n"

Books ==
    {[format |-> "txt", content |-> GutenbergHeader \o t \o GutenbergFooter] : t \in Texts}
    \cup {[format |-> "html", content |-> HtmlText],
          [format |-> "text/html", content |-> GutenbergHtml]}

Identifiers == {"1", "3", "03", "5", "99", "II", "ii", "Chapter 3", "chapter II",
                "IIX9", "3rd", "  ", ""}

\* loadBookContent after its await, per book: trimmedContent and the outcome of
\* jumpToFirstChapter(trimmedContent)
LoadTable ==
    [b \in Books |->
        LET trimmedContent == TrimmedContent(b.format, b.content)
        IN  [trimmedContent |-> trimmedContent,
             first |-> FirstChapterOutcome(trimmedContent)]]

Documents == {LoadTable[b].trimmedContent : b \in Books}

\* jumpToChapter per loaded document and identifier
JumpTable == [d \in Documents |-> [q \in Identifiers |-> JumpOutcome(q, d)]]

\* a jump that searches what is displayed once something is
JumpResultOfShown(input, full, shown) ==
    JumpOutcome(input, IF shown # "" THEN shown ELSE full)

\* the outcome of jumpToChapter on the state it reads: chapterInput and
\* fullBookContent (bookContent is not read)
JumpResult(input, full, shown) ==
    LET Lookup(table) ==
            IF full \in DOMAIN table /\ input \in DOMAIN table[full]
            THEN table[full][input]
            ELSE JumpOutcome(input, full)
    IN  Lookup(JumpTable)

----------------------------------------------------------------------------
(* The components at rest: the state of each before anything is done to it *)

NoStatement == [uid |-> "", command |-> "", where |-> 0, rows |-> {}, error |-> FALSE]
NoRequest == [method |-> "", search |-> "", type |-> ""]
NoResponse == [status |-> 0]
NoReply == [status |-> 0, error |-> "", isTemporary |-> FALSE, results |-> <<>>]
EmptyForm == [username |-> "", email |-> "", password |-> ""]

TableAtRest == user_books = {} /\ statement = NoStatement

SearchAtRest ==
    /\ request = NoRequest
    /\ pc = "idle"
    /\ attempt = 0
    /\ fetchCount = 0
    /\ response = NoResponse
    /\ data = <<>>
    /\ reply = NoReply

AuthAtRest ==
    /\ formData = EmptyForm
    /\ authIsLoading = FALSE
    /\ authToast = ""
    /\ signUps = {}

ReaderAtRest ==
    /\ book = [format |-> "", content |-> ""]
    /\ fullBookContent = ""
    /\ bookContent = ""
    /\ chapterInput = ""
    /\ isLoading = FALSE
    /\ toast = [title |-> "", description |-> ""]
    /\ handler = ""
    /\ query = ""
    /\ chapterNum = -1
    /\ romanNumeral = ""
    /\ allMatches = <<>>
    /\ bestMatch = [index |-> -1, pattern |-> "", score |-> 0]
    /\ sample = [doc |-> "", query |-> "", title |-> "", slice |-> "", between |-> FALSE]

----------------------------------------------------------------------------
(* The reader *)

NoToast == [title |-> "", description |-> ""]
NoSample == [doc |-> "", query |-> "", title |-> "", slice |-> "", between |-> FALSE]

InitOn(books) ==
    /\ book \in books
    /\ fullBookContent = ""
    /\ bookContent = ""
    /\ chapterInput = ""
    /\ isLoading = FALSE
    /\ toast = NoToast
    /\ handler = ""
    /\ query = ""
    /\ chapterNum = -1
    /\ romanNumeral = ""
    /\ allMatches = <<>>
    /\ bestMatch = NoMatch
    /\ sample = NoSample
    /\ TableAtRest
    /\ SearchAtRest
    /\ AuthAtRest

\* the locals of jumpToChapter are gone once another handler runs
NoJumpLocals ==
    /\ query' = ""
    /\ chapterNum' = -1
    /\ romanNumeral' = ""
    /\ allMatches' = <<>>
    /\ bestMatch' = NoMatch
    /\ UNCHANGED sample

\* loadBookContent up to its await: the Load Text button is disabled while loading
LoadStart ==
    /\ ~isLoading
    /\ isLoading' = TRUE
    /\ bookContent' = ""
    /\ handler' = "loadBookContent"
    /\ NoJumpLocals
    /\ UNCHANGED <<book, fullBookContent, chapterInput, toast>>
    /\ UNCHANGED <<tableVars, searchVars, authVars>>

\* fetch-book-content answers with an error: the catch and finally blocks
FetchFails ==
    /\ isLoading
    /\ toast' = FetchErrorToast
    /\ isLoading' = FALSE
    /\ handler' = "fetchError"
    /\ NoJumpLocals
    /\ UNCHANGED <<book, fullBookContent, bookContent, chapterInput>>
    /\ UNCHANGED <<tableVars, searchVars, authVars>>

\* fetch-book-content answers with the text: the rest of loadBookContent,
\* jumpToFirstChapter included
FetchSucceeds ==
    /\ isLoading
    /\ \E loaded \in {LoadTable[book]} :
           /\ fullBookContent' = loaded.trimmedContent
           /\ bookContent' = IF loaded.first.threw THEN bookContent
                             ELSE loaded.first.slice
           /\ toast' = IF loaded.first.threw THEN MatchAllErrorToast
                       ELSE loaded.first.toast
    /\ isLoading' = FALSE
    /\ handler' = "fetchData"
    /\ NoJumpLocals
    /\ UNCHANGED <<book, chapterInput>>
    /\ UNCHANGED <<tableVars, searchVars, authVars>>

\* onChange of the chapter box, which is disabled until a book is loaded
SetChapterInput(value) ==
    /\ fullBookContent # ""
    /\ chapterInput' = value
    /\ handler' = "onChange"
    /\ NoJumpLocals
    /\ UNCHANGED <<book, fullBookContent, bookContent, isLoading, toast>>
    /\ UNCHANGED <<tableVars, searchVars, authVars>>

\* jumpToChapter, from the Go button or the Enter key (both need a loaded book)
JumpToChapter ==
    /\ fullBookContent # ""
    /\ \E out \in {JumpResult(chapterInput, fullBookContent, bookContent)} :
           /\ toast' = out.toast
           /\ bookContent' = IF out.shows THEN out.slice ELSE bookContent
           /\ chapterInput' = IF out.clears THEN "" ELSE chapterInput
           /\ chapterNum' = out.chapterNum
           /\ romanNumeral' = out.romanNumeral
           /\ allMatches' = out.allMatches
           /\ bestMatch' = out.bestMatch
           /\ sample' = IF sample = NoSample
                        THEN [doc |-> fullBookContent, query |-> chapterInput,
                              title |-> out.toast.title, slice |-> out.slice,
                              between |-> FALSE]
                        ELSE IF out.shows /\ out.slice # sample.slice
                        THEN [sample EXCEPT !.between = TRUE]
                        ELSE sample
    /\ query' = chapterInput
    /\ handler' = "jumpToChapter"
    /\ UNCHANGED <<book, fullBookContent, isLoading>>
    /\ UNCHANGED <<tableVars, searchVars, authVars>>

NextOn(identifiers) ==
    \/ LoadStart
    \/ FetchFails
    \/ FetchSucceeds
    \/ \E value \in identifiers : SetChapterInput(value)
    \/ JumpToChapter

Init == InitOn(Books)
Next == NextOn(Identifiers)
Spec == Init /\ [][Next]_vars

----------------------------------------------------------------------------
(* Parsing Roman identifiers: jumpToChapter applied to every spelling of    *)
(* every short numeral, on one small loaded book                            *)

MaxRomanLen == 2

RECURSIVE Numerals(_)
\* the strings of n Roman symbols
Numerals(n) ==
    IF n = 1 THEN RomanSymbols
    ELSE {a \o b : a \in Numerals(n - 1), b \in RomanSymbols}

UpperNumerals ==
    UNION {Numerals(n) : n \in 1..MaxRomanLen}
    \cup {"III", "VIII", "XIV", "XIX", "XLII", "XCIX", "CDXLIV", "MCMXC", "MMXXIV", "IIX"}

LowerOf == [c \in UpperSet |->
              CharAt(LowerLetters, CHOOSE k \in 0..25 : CharAt(UpperLetters, k) = c)]

RECURSIVE ToLowerCase(_)
ToLowerCase(s) ==
    IF Len(s) = 0 THEN ""
    ELSE (IF CharAt(s, 0) \in UpperSet THEN LowerOf[CharAt(s, 0)] ELSE CharAt(s, 0))
         \o ToLowerCase(Substring(s, 1, Len(s)))

\* the ways a reader types the numeral r
Spellings(r) ==
    {r, ToLowerCase(r), ToLowerCase(Substring(r, 0, 1)) \o Substring(r, 1, Len(r)),
     "Chapter " \o r, "chapter " \o ToLowerCase(r), "CHAPTER  " \o r}

RomanIdentifiers == UNION {Spellings(r) : r \in UpperNumerals}

ParseBook ==
    [format |-> "txt",
     content |-> GutenbergHeader \o "A TALE\n\n"
                 \o "Chapter IV\n\nNobody spoke. The fire had burned low.\n\n"
                 \o "Chapter V\n\nIt was a bright cold day.\n"
                 \o GutenbergFooter]

\* the book is loaded (the load ended in its catch block) and an identifier
\* has been typed
InitParse ==
    /\ book = ParseBook
    /\ fullBookContent = TrimmedContent(ParseBook.format, ParseBook.content)
    /\ bookContent = ""
    /\ chapterInput \in RomanIdentifiers
    /\ isLoading = FALSE
    /\ toast = MatchAllErrorToast
    /\ handler = "onChange"
    /\ query = ""
    /\ chapterNum = -1
    /\ romanNumeral = ""
    /\ allMatches = <<>>
    /\ bestMatch = NoMatch
    /\ sample = NoSample
    /\ TableAtRest
    /\ SearchAtRest
    /\ AuthAtRest

NextParse == JumpToChapter

SpecParse == InitParse /\ [][NextParse]_vars

----------------------------------------------------------------------------
(* public.user_books under row-level security.  A row is                    *)
(* [id, user_id, gutenberg_id, status]; a statement is run by a session     *)
(* whose auth.uid() is a user's id or NULL (not signed in).                 *)

MaxRows == 2

Null == "NULL"
Users == {"u1", "u2"}
Sessions == Users \cup {Null}
RowIds == 1..MaxRows
GutenbergIds == {11, 84}
Statuses == {"bookmarked", "reading"}

\* the SQL comparison a = b, taken as a condition: NULL is not true
SqlEquals(a, b) == a # Null /\ b # Null /\ a = b

\* a policy that lets every signed-in user see every row
ViewAnyBooks(uid, row) == uid # Null

\* "Users can view their own books": FOR SELECT USING (auth.uid() = user_id)
ViewOwnBooks(uid, row) == SqlEquals(uid, row.user_id)

\* "Users can insert their own books": FOR INSERT WITH CHECK (auth.uid() = user_id)
InsertOwnBooks(uid, row) == SqlEquals(uid, row.user_id)

\* "Users can update their own books": FOR UPDATE USING (auth.uid() = user_id);
\* with no WITH CHECK given, the same expression checks the new row
UpdateOwnBooks(uid, row) == SqlEquals(uid, row.user_id)

\* "Users can delete their own books": FOR DELETE USING (auth.uid() = user_id)
DeleteOwnBooks(uid, row) == SqlEquals(uid, row.user_id)

\* PRIMARY KEY (id) and UNIQUE (user_id, gutenberg_id) hold in the table
KeysHold(table) ==
    \A r1, r2 \in table :
        (r1.id = r2.id \/ (r1.user_id = r2.user_id /\ r1.gutenberg_id = r2.gutenberg_id))
            => r1 = r2

\* the rows a WHERE id = w names (w = 0: a statement with no WHERE clause)
Named(table, w) == {r \in table : w = 0 \/ r.id = w}

\* SELECT * FROM user_books [WHERE id = w], run by uid
Select(uid, w) ==
    /\ statement' = [uid |-> uid, command |-> "SELECT", where |-> w,
                     rows |-> {r \in Named(user_books, w) : ViewOwnBooks(uid, r)},
                     error |-> FALSE]
    /\ UNCHANGED user_books
    /\ UNCHANGED <<readerVars, searchVars, authVars>>

\* INSERT INTO user_books VALUES (row), run by uid
Insert(uid, row) ==
    /\ \E ok \in {InsertOwnBooks(uid, row) /\ KeysHold(user_books \cup {row})} :
           /\ user_books' = IF ok THEN user_books \cup {row} ELSE user_books
           /\ statement' = [uid |-> uid, command |-> "INSERT", where |-> 0,
                            rows |-> IF ok THEN {row} ELSE {}, error |-> ~ok]
    /\ UNCHANGED <<readerVars, searchVars, authVars>>

\* UPDATE user_books SET user_id = owner, status = status [WHERE id = w], run
\* by uid: the rows it may see and update are rewritten, unless a new row
\* fails the check or a key
Update(uid, w, owner, status) ==
    /\ UNCHANGED <<readerVars, searchVars, authVars>>
    /\ \E old \in {{r \in Named(user_books, w) :
                    ViewOwnBooks(uid, r) /\ UpdateOwnBooks(uid, r)}} :
      \E new \in {{[r EXCEPT !.user_id = owner, !.status = status] : r \in old}} :
        \E ok \in {/\ \A r \in new : UpdateOwnBooks(uid, r)
                   /\ Cardinality((user_books \ old) \cup new) = Cardinality(user_books)
                   /\ KeysHold((user_books \ old) \cup new)} :
            /\ user_books' = IF ok THEN (user_books \ old) \cup new ELSE user_books
            /\ statement' = [uid |-> uid, command |-> "UPDATE", where |-> w,
                             rows |-> IF ok THEN old ELSE {}, error |-> ~ok]

\* DELETE FROM user_books [WHERE id = w], run by uid
Delete(uid, w) ==
    /\ UNCHANGED <<readerVars, searchVars, authVars>>
    /\ \E old \in {{r \in Named(user_books, w) :
                    ViewOwnBooks(uid, r) /\ DeleteOwnBooks(uid, r)}} :
        /\ user_books' = user_books \ old
        /\ statement' = [uid |-> uid, command |-> "DELETE", where |-> w,
                         rows |-> old, error |-> FALSE]

InitTable == ReaderAtRest /\ TableAtRest /\ SearchAtRest /\ AuthAtRest

NextTable ==
    \/ \E uid \in Sessions, w \in {0} \cup RowIds : Select(uid, w)
    \/ \E uid \in Sessions, id \in RowIds, owner \in Users, g \in GutenbergIds :
           Insert(uid, [id |-> id, user_id |-> owner, gutenberg_id |-> g,
                        status |-> "bookmarked"])
    \/ \E uid \in Sessions, w \in {0} \cup RowIds, owner \in Users, status \in Statuses :
           Update(uid, w, owner, status)
    \/ \E uid \in Sessions, w \in {0} \cup RowIds : Delete(uid, w)

SpecTable == InitTable /\ [][NextTable]_vars

----------------------------------------------------------------------------
(* The search-books edge function.  A book of the catalog is                *)
(* [id, title, authors, formats, download_count]: authors the sequence of   *)
(* the authors' names, formats the set of the keys of its formats object.   *)

maxRetries == 3
MaxResults == 3

\* String.prototype.includes
Includes(s, sub) == IndexOf(s, sub, 0) # -1

RECURSIVE JoinNames(_, _)
\* authors.map(a => a.name).join(', ') from the n-th author on
JoinNames(authors, n) ==
    IF n > Len(authors) THEN ""
    ELSE IF n = Len(authors) THEN authors[n]
    ELSE authors[n] \o ", " \o JoinNames(authors, n + 1)

\* the filter of a title search
TitleMatches(item, searchLower) ==
    item.title # "" /\ Includes(ToLowerCase(item.title), searchLower)

\* the filter of an author search
AuthorMatches(item, searchLower) ==
    \E n \in 1..Len(item.authors) : Includes(ToLowerCase(item.authors[n]), searchLower)

\* a filter that keeps only the matches, also when there are none
FilteredOnly(results, searchTerm, searchType) ==
    LET ByTitle(item) == TitleMatches(item, ToLowerCase(searchTerm))
        ByAuthor(item) == AuthorMatches(item, ToLowerCase(searchTerm))
    IN  IF searchType = "title" THEN SelectSeq(results, ByTitle)
        ELSE IF searchType = "author" THEN SelectSeq(results, ByAuthor)
        ELSE results

\* filteredResults, from data.results
FilteredResults(results, searchTerm, searchType) ==
    LET ByTitle(item) == TitleMatches(item, ToLowerCase(searchTerm))
        ByAuthor(item) == AuthorMatches(item, ToLowerCase(searchTerm))
        OrAll(filtered) == IF filtered = <<>> THEN results ELSE filtered
    IN  IF searchType = "title" /\ Len(results) > 0 THEN SelectSeq(results, ByTitle)
        ELSE IF searchType = "author" /\ Len(results) > 0
             THEN OrAll(SelectSeq(results, ByAuthor))
        ELSE results

\* bookKey
BookKey(item) ==
    Trim(ToLowerCase(item.title)) \o "|||" \o ToLowerCase(JoinNames(item.authors, 1))

ReadableFormats ==
    {"text/plain; charset=us-ascii", "text/plain; charset=utf-8", "text/plain", "text/html"}

\* hasReadableFormat / existingHasReadableFormat
HasReadableFormat(item) == item.formats \cap ReadableFormats # {}

\* the test that replaces a book that takes every later book of the same key
ReplacesAlways(item, existing) == TRUE

\* whether book takes the place of the existing book of the same key
Replaces(item, existing) ==
    \/ HasReadableFormat(item) /\ ~HasReadableFormat(existing)
    \/ /\ HasReadableFormat(item) /\ HasReadableFormat(existing)
       /\ item.download_count > existing.download_count

\* the body of filteredResults.forEach for one book; uniqueBooks is the Map,
\* as the sequence of its [key, book] entries in insertion order (setting an
\* existing key keeps its place)
VisitBook(uniqueBooks, item) ==
    LET Entry(n) ==
            IF uniqueBooks[n].key # BookKey(item) THEN uniqueBooks[n]
            ELSE IF Replaces(item, uniqueBooks[n].book)
                 THEN [key |-> BookKey(item), book |-> item]
                 ELSE uniqueBooks[n]
    IN  IF \E n \in 1..Len(uniqueBooks) : uniqueBooks[n].key = BookKey(item)
        THEN [n \in 1..Len(uniqueBooks) |-> Entry(n)]
        ELSE Append(uniqueBooks, [key |-> BookKey(item), book |-> item])

RECURSIVE UniqueBooks(_, _)
\* uniqueBooks after forEach has visited the first n books
UniqueBooks(filteredResults, n) ==
    IF n = 0 THEN <<>>
    ELSE VisitBook(UniqueBooks(filteredResults, n - 1), filteredResults[n])

\* deduplicatedResults = Array.from(uniqueBooks.values())
DeduplicatedResults(filteredResults) ==
    LET Values(uniqueBooks) == [n \in 1..Len(uniqueBooks) |-> uniqueBooks[n].book]
    IN  Values(UniqueBooks(filteredResults, Len(filteredResults)))

\* an answer that passes on the status of the last response
Forwarded(last) ==
    [status |-> IF last.status = 0 THEN 500 ELSE last.status,
     error |-> "Failed to fetch books",
     isTemporary |-> FALSE,
     results |-> <<>>]

\* the response, when the retry loop has ended without an ok response
Unavailable(last) ==
    [status |-> 503,
     error |-> IF last.status = 503
               THEN "The Project Gutenberg API is temporarily unavailable. Please try again in a few moments."
               ELSE "Unable to search books at this time.",
     isTemporary |-> TRUE,
     results |-> <<>>]

\* the catalog the upstream API answers from
Catalog ==
    { [id |-> 98, title |-> "A Tale of Two Cities", authors |-> <<"Dickens, Charles">>,
       formats |-> {"text/html", "text/plain; charset=utf-8"}, download_count |-> 5000],
      [id |-> 9998, title |-> "A Tale of Two Cities", authors |-> <<"Dickens, Charles">>,
       formats |-> {"audio/mpeg"}, download_count |-> 7000],
      [id |-> 766, title |-> "A Tale of Two Cities ", authors |-> <<"Dickens, Charles">>,
       formats |-> {"text/plain"}, download_count |-> 300],
      [id |-> 2000, title |-> "The Tale of Peter Rabbit", authors |-> <<"Potter, Beatrix">>,
       formats |-> {"audio/ogg"}, download_count |-> 6000],
      [id |-> 1400, title |-> "Great Expectations", authors |-> <<"Dickens, Charles">>,
       formats |-> {"text/html"}, download_count |-> 8000] }

RECURSIVE Listings(_)
\* the lists of n different books of the catalog
Listings(n) ==
    IF n = 0 THEN {<<>>}
    ELSE {Append(l, b) : l \in Listings(n - 1), b \in Catalog} \ 
         {l \in {Append(l, b) : l \in Listings(n - 1), b \in Catalog} :
             \E i, j \in 1..n : i # j /\ l[i] = l[j]}

Upstreams == UNION {Listings(n) : n \in 0..MaxResults}

Requests ==
    { [method |-> "OPTIONS", search |-> "", type |-> ""],
      [method |-> "GET", search |-> "", type |-> "title"],
      [method |-> "POST", search |-> "Tale", type |-> "title"],
      [method |-> "GET", search |-> "dickens", type |-> "author"],
      [method |-> "POST", search |-> "zola", type |-> "author"] }

\* the handler up to the retry loop: the preflight answer, the 400 for a
\* missing search term, or the first pass of the loop is about to fetch
Serve(req) ==
    /\ pc \in {"idle", "done"}
    /\ request' = req
    /\ fetchCount' = 0
    /\ response' = NoResponse
    /\ data' = <<>>
    /\ IF req.method = "OPTIONS"
       THEN pc' = "done" /\ attempt' = 0 /\ reply' = [NoReply EXCEPT !.status = 200]
       ELSE IF req.search = ""
       THEN /\ pc' = "done" /\ attempt' = 0
            /\ reply' = [status |-> 400, error |-> "Search term is required",
                         isTemporary |-> FALSE,
                         results |-> <<>>]
       ELSE pc' = "fetch" /\ attempt' = 1 /\ reply' = NoReply
    /\ UNCHANGED <<readerVars, tableVars, authVars>>

\* fetch answers with an ok response whose body is results: the loop is left
\* and the rest of the handler runs
FetchOk(results) ==
    /\ pc = "fetch"
    /\ fetchCount' = fetchCount + 1
    /\ response' = [status |-> 200]
    /\ data' = results
    /\ reply' = [status |-> 200, error |-> "", isTemporary |-> FALSE,
                 results |-> DeduplicatedResults(
                                 FilteredResults(results, request.search, request.type))]
    /\ pc' = "done"
    /\ UNCHANGED <<request, attempt, readerVars, tableVars, authVars>>

\* fetch answers with an ok response whose body is not JSON: response.json()
\* throws into the outer catch
FetchOkBadBody ==
    /\ pc = "fetch"
    /\ fetchCount' = fetchCount + 1
    /\ response' = [status |-> 200]
    /\ reply' = [status |-> 500, error |-> "Internal server error",
                 isTemporary |-> FALSE, results |-> <<>>]
    /\ pc' = "done"
    /\ UNCHANGED <<request, attempt, data, readerVars, tableVars, authVars>>

\* a loop that goes on to another pass whatever the number of passes made
PassFailedForever(last) == pc' = "backoff" /\ UNCHANGED reply

\* the end of one pass of the loop that neither broke out nor returned: the
\* back-off before the next pass, or the 503 once the passes are used up
PassFailed(last) ==
    IF attempt < maxRetries
    THEN pc' = "backoff" /\ UNCHANGED reply
    ELSE pc' = "done" /\ reply' = Unavailable(last)

\* a loop that retries after every response that is not ok
FetchNotOkRetried(status) ==
    /\ pc = "fetch"
    /\ fetchCount' = fetchCount + 1
    /\ response' = [status |-> status]
    /\ PassFailed([status |-> status])
    /\ UNCHANGED <<request, attempt, data, readerVars, tableVars, authVars>>

\* fetch answers with a status that is not ok: a status below 500 leaves the loop
FetchNotOk(status) ==
    /\ pc = "fetch"
    /\ fetchCount' = fetchCount + 1
    /\ response' = [status |-> status]
    /\ IF status < 500
       THEN pc' = "done" /\ reply' = Unavailable([status |-> status])
       ELSE PassFailed([status |-> status])
    /\ UNCHANGED <<request, attempt, data, readerVars, tableVars, authVars>>

\* fetch throws: response keeps what an earlier pass gave it
FetchThrows ==
    /\ pc = "fetch"
    /\ fetchCount' = fetchCount + 1
    /\ PassFailed(response)
    /\ UNCHANGED <<request, attempt, response, data, readerVars, tableVars, authVars>>

\* the setTimeout of the back-off fires and the next pass begins
Backoff ==
    /\ pc = "backoff"
    /\ attempt' = attempt + 1
    /\ pc' = "fetch"
    /\ UNCHANGED <<request, fetchCount, response, data, reply,
                   readerVars, tableVars, authVars>>

InitSearch == ReaderAtRest /\ TableAtRest /\ SearchAtRest /\ AuthAtRest

\* the steps of the handler once it has a request
Handle ==
    \/ \E results \in Upstreams : FetchOk(results)
    \/ FetchOkBadBody
    \/ \E status \in {404, 500, 503} : FetchNotOk(status)
    \/ FetchThrows
    \/ Backoff

NextSearch == (\E req \in Requests : Serve(req)) \/ Handle

\* every call of fetch is answered or fails, and every timer fires
SpecSearch == InitSearch /\ [][NextSearch]_vars /\ WF_vars(Handle)

----------------------------------------------------------------------------
(* The sign-up form (AuthForm) *)

MinPassword == 6
MaxPassword == 100
MinUsername == 1
MaxUsername == 50
MaxEmail == 255

IsLetter(c) == c \in LowerSet \/ c \in UpperSet
IsAlphanumeric(c) == IsLetter(c) \/ IsDigit(c)

\* z.string().email(): the address matches zod's pattern
\*   ^(?!\.)(?!.*\.\.)([A-Z0-9_'+\-\.]*)[A-Z0-9_+-]@([A-Z0-9][A-Z0-9\-]*\.)+[A-Z]{2,}$  (i)
IsEmail(s) ==
    LET Domain(d, dot) ==
            /\ dot >= 1
            /\ Len(d) - dot - 1 >= 2
            /\ \A p \in (dot + 1)..(Len(d) - 1) : IsLetter(CharAt(d, p))
            /\ \A p \in 0..(dot - 1) :
                   IsAlphanumeric(CharAt(d, p)) \/ CharAt(d, p) \in {"-", "."}
            /\ \A p \in 0..(dot - 1) :
                   (p = 0 \/ CharAt(d, p - 1) = ".") => IsAlphanumeric(CharAt(d, p))
        Host(d) == Domain(d, Last({p \in 0..(Len(d) - 1) : CharAt(d, p) = "."}))
        Address(at) ==
            /\ at >= 1
            /\ CharAt(s, 0) # "."
            /\ ~Includes(s, "..")
            /\ \A p \in 0..(at - 1) :
                   IsAlphanumeric(CharAt(s, p)) \/ CharAt(s, p) \in {"_", "'", "+", "-", "."}
            /\ IsAlphanumeric(CharAt(s, at - 1)) \/ CharAt(s, at - 1) \in {"_", "+", "-"}
            /\ Host(Slice(s, at + 1, Len(s)))
    IN  Address(IndexOf(s, "@", 0))

\* signUpSchema.safeParse(formData).success
SafeParse(form) ==
    /\ Len(form.username) >= MinUsername /\ Len(form.username) <= MaxUsername
    /\ IsEmail(form.email) /\ Len(form.email) <= MaxEmail
    /\ Len(form.password) >= MinPassword /\ Len(form.password) <= MaxPassword

Usernames == {"", "ab", "reader_1", "a b!", Rep("x", 21), Rep("x", 51)}
Emails == {"", "reader@example.com", "reader@example", "not an email"}
Passwords == {"12345", "123456", Rep("p", 101)}

\* handleInputChange(field, value)
HandleInputChange(field, value) ==
    /\ formData' = [formData EXCEPT ![field] = value]
    /\ UNCHANGED <<authIsLoading, authToast, signUps>>
    /\ UNCHANGED <<readerVars, tableVars, searchVars>>

\* handleSignUp up to its await (the button is disabled while isLoading): the
\* validation error, or the call of supabase.auth.signUp
HandleSignUp ==
    /\ ~authIsLoading
    /\ IF SafeParse(formData)
       THEN /\ signUps' = signUps \cup {formData}
            /\ authIsLoading' = TRUE
            /\ UNCHANGED authToast
       ELSE /\ authToast' = "Validation Error"
            /\ UNCHANGED <<signUps, authIsLoading>>
    /\ UNCHANGED formData
    /\ UNCHANGED <<readerVars, tableVars, searchVars>>

\* supabase.auth.signUp answers, with or without an error, or throws: the
\* rest of handleSignUp
SignUpAnswers(title) ==
    /\ authIsLoading
    /\ authToast' = title
    /\ authIsLoading' = FALSE
    /\ UNCHANGED <<formData, signUps>>
    /\ UNCHANGED <<readerVars, tableVars, searchVars>>

InitAuth == ReaderAtRest /\ TableAtRest /\ SearchAtRest /\ AuthAtRest

NextAuth ==
    \/ \E value \in Usernames : HandleInputChange("username", value)
    \/ \E value \in Emails : HandleInputChange("email", value)
    \/ \E value \in Passwords : HandleInputChange("password", value)
    \/ HandleSignUp
    \/ \E title \in {"Account Created!", "Sign Up Error", "Unexpected Error"} :
           SignUpAnswers(title)

SpecAuth == InitAuth /\ [][NextAuth]_vars

----------------------------------------------------------------------------
(* Properties *)

\* the state right after a jumpToChapter call that displayed a chapter
JustFound == handler = "jumpToChapter" /\ toast.title = "Chapter Found"

\* the text after the heading jumpToChapter chose
AfterChosenHeading ==
    Substring(fullBookContent, bestMatch.index + Len(bestMatch.pattern),
              Len(fullBookContent))

\* the offsets in text, at least MinGap characters in, where a heading of any
\* chapter (any of the next-chapter patterns) starts
LaterHeadings(text) ==
    {i \in MinGap..(Len(text) - 1) :
        \E n \in 1..Len(NextChapterPatterns) :
            MatchEndAt(text, i, NextChapterPatterns[n]) >= 0}

\* C1: after a successful jump the displayed chapter is the text from just
\* after the chosen heading to just before the nearest heading of any chapter
\* that starts at least 300 characters later (to the end of the document only
\* if there is none), trimmed.
C1_SliceEndsAtNextHeading ==
    JustFound =>
        LET text == AfterChosenHeading
            later == LaterHeadings(text)
            end == IF later = {} THEN Len(text)
                   ELSE CHOOSE i \in later : \A j \in later : i <= j
        IN  bookContent = Trim(Substring(text, 0, end))

\* s is a string of decimal digits
AllDigits(s) == s # "" /\ \A k \in 0..(Len(s) - 1) : CharAt(s, k) \in DigitSet

\* the line that starts at offset k of doc is exactly the text heading
HeadingLineAt(doc, k, heading) ==
    /\ k = 0 \/ CharAt(doc, k - 1) = "\n"
    /\ LitAt(doc, k, heading, FALSE)
    /\ CharAt(doc, k + Len(heading)) = "\n"

\* the text after offset e of doc, trimmed
TextAfter(doc, e) == Trim(Substring(doc, e, Len(doc)))

\* shown is what text begins with
BeginsWith(text, shown) == Substring(text, 0, Len(shown)) = shown

\* C2: when the identifier is a decimal number N and the document has a line
\* "CHAPTER N" followed by at least two paragraphs, at any offset (0 included),
\* the jump does not report Chapter Not Found and displays a non-empty slice
\* that starts with the text right after that heading.
C2_HeadingFoundAnywhere ==
    (handler = "jumpToChapter" /\ AllDigits(query)) =>
        LET heading == "CHAPTER " \o query
            places == {k \in 0..(Len(fullBookContent) - 1) :
                          /\ HeadingLineAt(fullBookContent, k, heading)
                          /\ SplitCount(TextAfter(fullBookContent, k + Len(heading)),
                                        "\n\n", 0) >= 2}
        IN  places # {} =>
                /\ toast.title # "Chapter Not Found"
                /\ bookContent # ""
                /\ \E k \in places :
                       BeginsWith(TextAfter(fullBookContent, k + Len(heading)), bookContent)

\* the offsets of doc where one of the patterns matches
HeadingsOf(doc, patterns) ==
    UNION {MatchStarts(doc, patterns[n]) : n \in 1..Len(patterns)}

\* C3: after a successful fetch of a document in which no first-chapter
\* pattern matches, the displayed content is the first min(10000, length)
\* characters of the document and the notice is "Book Loaded", not an error.
C3_NoHeadingShowsPrefix ==
    (handler = "fetchData" /\ HeadingsOf(fullBookContent, FirstChapterPatterns) = {}) =>
        /\ toast.title = "Book Loaded"
        /\ bookContent = Substring(fullBookContent, 0,
                                   MinOf(DefaultPrefix, Len(fullBookContent)))

\* C4: after a successful fetch of a document with a first-chapter heading,
\* fullBookContent is the whole document, the notice is "Book Loaded" /
\* "Starting at Chapter 1.", and the displayed content runs from a
\* highest-scoring first-chapter heading to just before the nearest
\* chapter-two heading at least 300 characters later (or to the end).
C4_OpensAtFirstChapter ==
    LET starts == HeadingsOf(fullBookContent, FirstChapterPatterns)
    IN  (handler = "fetchData" /\ starts # {}) =>
            /\ fullBookContent = TrimmedContent(book.format, book.content)
            /\ toast = FirstChapterToast
            /\ \E i \in starts :
                   /\ \A j \in starts : FirstChapterProseScore(fullBookContent, j)
                                        <= FirstChapterProseScore(fullBookContent, i)
                   /\ LET text == Substring(fullBookContent, i, Len(fullBookContent))
                          later == {e \in HeadingsOf(text, SecondChapterPatterns) : e >= MinGap}
                          end == IF later = {} THEN Len(text)
                                 ELSE CHOOSE e \in later : \A f \in later : e <= f
                      IN  bookContent = Trim(Substring(text, 0, end))

\* the candidates with the highest score
TopCandidates ==
    {n \in 1..Len(allMatches) :
        \A m \in 1..Len(allMatches) : allMatches[m].score <= allMatches[n].score}

\* C5 (as stated): the chosen candidate has the highest score and, among the
\* candidates with that score, the smallest offset in the document, whichever
\* pattern found each of them.
C5_TieGoesToSmallestOffset ==
    JustFound =>
        \E n \in TopCandidates :
            /\ bestMatch = allMatches[n]
            /\ \A m \in TopCandidates : allMatches[n].index <= allMatches[m].index

\* C5 (amended): exactly one candidate is chosen, it has the highest score
\* and, among the candidates with that score, it is the first one collected:
\* the patterns are scanned in their listed order (the Roman forms before the
\* decimal ones; CHAPTER, Chapter, "N." and bare "N" within each), each
\* pattern's matches in document order.
C5_TieGoesToFirstCollected ==
    JustFound =>
        /\ TopCandidates # {}
        /\ \E n \in TopCandidates :
               /\ bestMatch = allMatches[n]
               /\ \A m \in TopCandidates : n <= m

\* two candidates tie for the highest score and the chosen one is not the one
\* with the smallest offset
C5_Witness ==
    /\ JustFound
    /\ \E m \in TopCandidates :
           allMatches[m].index < bestMatch.index /\ allMatches[m].score = bestMatch.score

\* the offset where the line holding offset k of doc starts
LineStart(doc, k) ==
    LET breaks == {p \in 0..(k - 1) : CharAt(doc, p) = "\n"}
    IN  IF breaks = {} THEN 0 ELSE 1 + CHOOSE p \in breaks : \A q \in breaks : q <= p

\* the offset where the line starting at ls ends (its line break, or Len(doc))
LineStop(doc, ls) ==
    LET nl == IndexOf(doc, "\n", ls) IN IF nl = -1 THEN Len(doc) ELSE nl

\* a non-blank line of at most MediumLine characters starts at ls
ShortLineAt(doc, ls) ==
    /\ ls >= 0 /\ ls < Len(doc)
    /\ LineStop(doc, ls) - ls > 0
    /\ LineStop(doc, ls) - ls <= MediumLine

\* the heading line starting at hs sits in a listing: the line before it or
\* the line after it is a short non-blank line
InListing(doc, hs) ==
    \/ hs >= 2 /\ ShortLineAt(doc, LineStart(doc, hs - 1))
    \/ ShortLineAt(doc, LineStop(doc, hs) + 1)

\* every line of doc[a..b) has more than LongLine characters
AllLinesLong(doc, a, b) ==
    \A ls \in {a} \cup {p + 1 : p \in {q \in a..(b - 2) : CharAt(doc, q) = "\n"}} :
        MinOf(LineStop(doc, ls), b) - ls > LongLine

RECURSIVE ProseParagraphs(_, _, _)
\* n paragraphs of long lines, separated by blank lines, start at pos
ProseParagraphs(doc, pos, n) ==
    IF n = 0 THEN TRUE
    ELSE /\ pos < Len(doc)
         /\ LET gap == IndexOf(doc, "\n\n", pos)
                stop == IF gap = -1 THEN Len(doc) ELSE gap
            IN  /\ AllLinesLong(doc, pos, stop)
                /\ ProseParagraphs(doc, SkipSpaces(doc, stop), n - 1)

\* the offsets of the distinct places where a heading of the requested chapter
\* was found, as offsets of the heading's first character
HeadingPlaces ==
    {SkipSpaces(fullBookContent, allMatches[n].index) : n \in 1..Len(allMatches)}

\* C6: when the requested chapter's heading occurs twice, once in a listing
\* of short lines and once followed by five paragraphs of prose, the jump
\* chooses the prose occurrence and the displayed slice starts after it.
C6_ProseBeatsContents ==
    JustFound =>
        LET listed == {hs \in HeadingPlaces : InListing(fullBookContent, hs)}
            prose == {hs \in HeadingPlaces :
                         ProseParagraphs(fullBookContent,
                             SkipSpaces(fullBookContent, LineStop(fullBookContent, hs)), 5)}
        IN  (Cardinality(HeadingPlaces) = 2 /\ listed # {} /\ prose # {} /\ listed # prose) =>
                /\ SkipSpaces(fullBookContent, bestMatch.index) \in prose
                /\ BeginsWith(TextAfter(fullBookContent,
                                        LineStop(fullBookContent,
                                                 SkipSpaces(fullBookContent, bestMatch.index))),
                              bookContent)

\* C7: a jump whose identifier parses and whose patterns match nowhere reports
\* "Chapter Not Found" and changes neither the displayed content, nor the
\* stored document, nor the chapter box; and a jump made while that notice is
\* up, for a chapter whose heading is there, succeeds and displays it.
C7_NotFoundChangesNothing ==
    [][/\ (handler' = "jumpToChapter" /\ chapterNum' >= 0 /\ allMatches' = <<>>) =>
              /\ toast'.title = "Chapter Not Found"
              /\ bookContent' = bookContent
              /\ fullBookContent' = fullBookContent
              /\ chapterInput' = chapterInput
       /\ (toast.title = "Chapter Not Found" /\ handler' = "jumpToChapter"
           /\ allMatches' # <<>>) =>
              /\ toast'.title = "Chapter Found"
              /\ BeginsWith(TextAfter(fullBookContent,
                                      bestMatch'.index + Len(bestMatch'.pattern)),
                            bookContent')
              /\ fullBookContent' = fullBookContent]_vars

\* chapter 99 was asked for while a chapter was displayed: it is still there
C7_Witness ==
    /\ handler = "jumpToChapter"
    /\ toast.title = "Chapter Not Found"
    /\ query = "99"
    /\ chapterInput = "99"
    /\ bookContent # ""
    /\ sample.title = "Chapter Found"

\* the identifier as typed, less an optional "chapter" word and the spaces
\* around it
Bare(input) ==
    LET t == Trim(input)
    IN  IF LitAt(t, 0, "chapter", TRUE) THEN Trim(Substring(t, 7, Len(t))) ELSE t

\* not a decimal number, and with a character that is no Roman symbol
Malformed(input) ==
    /\ ~AllDigits(Bare(input))
    /\ \E k \in 0..(Len(Bare(input)) - 1) :
           ToUpperChar(CharAt(Bare(input), k)) \notin {"I", "V", "X", "L", "C", "D", "M"}

\* C8: a jump with an identifier that is not all digits and holds a character
\* outside I, V, X, L, C, D, M reports "Invalid Input" with nothing scanned,
\* and leaves the displayed content and the stored document unchanged.
C8_MalformedIsRejected ==
    [][(handler' = "jumpToChapter" /\ Malformed(chapterInput)) =>
           /\ toast'.title = "Invalid Input"
           /\ allMatches' = <<>>
           /\ bestMatch' = NoMatch
           /\ bookContent' = bookContent
           /\ fullBookContent' = fullBookContent]_vars

\* "IIX9" was rejected while a chapter was displayed
C8_Witness ==
    /\ handler = "jumpToChapter"
    /\ query = "IIX9"
    /\ toast.title = "Invalid Input"
    /\ bookContent # ""
    /\ fullBookContent # ""

\* the value of a Roman symbol in either case, 0 for any other character
SymbolValue(c) ==
    CASE c \in {"I", "i"} -> 1 [] c \in {"V", "v"} -> 5 [] c \in {"X", "x"} -> 10
      [] c \in {"L", "l"} -> 50 [] c \in {"C", "c"} -> 100 [] c \in {"D", "d"} -> 500
      [] c \in {"M", "m"} -> 1000 [] OTHER -> 0

RECURSIVE SignedSum(_, _)
\* the sum over the symbols of s from k on, a symbol smaller than its successor
\* counting negatively
SignedSum(s, k) ==
    IF k >= Len(s) THEN 0
    ELSE (IF SymbolValue(CharAt(s, k)) < SymbolValue(CharAt(s, k + 1))
          THEN 0 - SymbolValue(CharAt(s, k)) ELSE SymbolValue(CharAt(s, k)))
         + SignedSum(s, k + 1)

\* the numeral of an identifier typed with or without "chapter" and
\* whitespace before it
NumeralOf(input) ==
    IF LitAt(input, 0, "chapter", TRUE) /\ SkipSpaces(input, 7) > 7
    THEN Substring(input, SkipSpaces(input, 7), Len(input))
    ELSE input

IsRomanString(s) ==
    s # "" /\ \A k \in 0..(Len(s) - 1) : SymbolValue(CharAt(s, k)) > 0

\* C9: a jump with a non-empty string of Roman symbols in any mix of cases,
\* with or without "chapter" and whitespace before it, parses it to the sum
\* in which a symbol smaller than the next one is subtracted and every other
\* symbol is added, and reports no invalid input.
C9_RomanValue ==
    (handler = "jumpToChapter" /\ IsRomanString(NumeralOf(query))) =>
        /\ chapterNum = SignedSum(NumeralOf(query), 0)
        /\ toast.title \in {"Chapter Found", "Chapter Not Found"}

\* "Chapter IV" was parsed to 4 and chapter IV displayed
C9_Witness ==
    /\ handler = "jumpToChapter"
    /\ query = "Chapter IV"
    /\ chapterNum = 4
    /\ toast.title = "Chapter Found"

\* C10: a jump never changes the stored document, and a jump with the
\* identifier of the session's first jump has that jump's outcome (the same
\* notice and, when a chapter is displayed, the same slice), whatever was
\* displayed or jumped to in between.
C10_JumpIsAFunctionOfItsInput ==
    [][handler' = "jumpToChapter" =>
           /\ fullBookContent' = fullBookContent
           /\ (sample # NoSample /\ sample.doc = fullBookContent
               /\ sample.query = chapterInput) =>
                  /\ toast'.title = sample.title
                  /\ toast'.title = "Chapter Found" => bookContent' = sample.slice]_vars

\* the first jump was repeated after a jump that displayed another slice
C10_Witness ==
    /\ JustFound
    /\ sample.between
    /\ sample.query = query
    /\ sample.slice = bookContent
    /\ sample.doc = fullBookContent

\* the probe window as described: the ProbeLength characters that follow the
\* matched heading text m.pattern
ProbeAfter(doc, m) ==
    Substring(doc, m.index + Len(m.pattern), m.index + Len(m.pattern) + ProbeLength)

RECURSIVE ProbeLinePoints(_, _, _)
\* the points of the lines n, n+1, .. of probe (line n starts at ls), the
\* first MaxProbeLines lines counting
ProbeLinePoints(probe, ls, n) ==
    LET Counted(stop) ==
            LinePoints(Len(Trim(Slice(probe, ls, stop))))
            + (IF stop >= Len(probe) THEN 0 ELSE ProbeLinePoints(probe, stop + 1, n + 1))
    IN  IF n >= MaxProbeLines THEN 0 ELSE Counted(LineStop(probe, ls))

\* the score as described, of a probe
DescribedScore(probe) ==
    ProbeLinePoints(probe, 0, 0)
    + (IF SplitCount(probe, "\n\n", 0) > 2 THEN 5 ELSE 0)
    + (IF HasSentence(probe, FALSE) THEN 3 ELSE 0)

\* C11: the score of every candidate of a jump is the score of the text that
\* follows its heading: 2 for each of the first 15 lines longer than 60
\* characters and 1 for each of 31 to 60, 5 for more than one paragraph break,
\* 3 for a sentence end followed by whitespace and a capital; the heading
\* itself is not scored.
C11_ScoreOfTextAfterHeading ==
    JustFound =>
        \A n \in 1..Len(allMatches) :
            allMatches[n].score = DescribedScore(ProbeAfter(fullBookContent, allMatches[n]))

\* C12: at every offset where jumpToFirstChapter finds a candidate, the score
\* its code computes equals the score the code of jumpToChapter computes for a
\* candidate at that offset.
C12_FirstChapterScoresAlike ==
    handler = "fetchData" =>
        \A i \in HeadingsOf(fullBookContent, FirstChapterPatterns) :
            FirstChapterProseScore(fullBookContent, i) = ProseScore(fullBookContent, i)

\* the end as described: the offset in text of the nearest match of any of
\* the patterns that starts MinGap characters in or later, Len(text) if none
DescribedEnd(text, patterns) ==
    LET Nearest(i) == IF i = -1 THEN Len(text) ELSE i
    IN  Nearest(First({i \in MinGap..(Len(text) - 1) :
                          \E n \in 1..Len(patterns) : MatchEndAt(text, i, patterns[n]) >= 0}))

\* C13: the loop over the next-chapter patterns, in jumpToChapter (on the text
\* after the chosen heading) and in jumpToFirstChapter (on the text from a
\* first-chapter candidate), ends the chapter at the nearest next-chapter
\* heading that is at least 300 characters in; a nearer heading is skipped and
\* does not keep a later one, of the same or another pattern, from ending it.
C13_EndsAtNearestHeadingFromMinGap ==
    /\ JustFound =>
           ChapterEndIndex(AfterChosenHeading, NextChapterPatterns, 1)
               = DescribedEnd(AfterChosenHeading, NextChapterPatterns)
    /\ handler = "fetchData" =>
           \A i \in HeadingsOf(fullBookContent, FirstChapterPatterns) :
               ChapterEndIndex(Substring(fullBookContent, i, Len(fullBookContent)),
                               SecondChapterPatterns, 1)
                   = DescribedEnd(Substring(fullBookContent, i, Len(fullBookContent)),
                                  SecondChapterPatterns)

\* the fetched text of the book: its content, less the markup when it is HTML
FetchedText == IF IndexOf(book.format, "html", 0) # -1 THEN StripHtml(book.content)
               ELSE book.content

\* the offset in text of the first of the markers, -1 if it has none
MarkerIn(text, markers) ==
    First({IndexOf(text, markers[n], 0) : n \in 1..Len(markers)} \ {-1})

\* C14: after a successful fetch of a text, plain or HTML, with a START
\* marker and/or an END marker, the stored document holds no marker and is
\* (trimmed) a stretch of the text that begins after the START marker and
\* ends where the END marker begins.
C14_BoilerplateIsCut ==
    handler = "fetchData" =>
        LET Between(text, s, e) ==
                /\ MarkerIn(fullBookContent, startMarkers) = -1
                /\ MarkerIn(fullBookContent, endMarkers) = -1
                /\ \E a \in (IF s = -1 THEN {0} ELSE (s + 1)..e) :
                       fullBookContent = Trim(Slice(text, a, e))
            Ending(text, e) ==
                Between(text, MarkerIn(text, startMarkers), IF e = -1 THEN Len(text) ELSE e)
        IN  Ending(FetchedText, MarkerIn(FetchedText, endMarkers))

\* C15: whatever statement a session runs on user_books, the rows it returns
\* or affects, the rows it removes or rewrites and the rows it creates all
\* have the session's user as their user_id; the rows of every other user are
\* neither read nor changed.
C15_OnlyOwnRows ==
    [][/\ \A r \in statement'.rows : r.user_id = statement'.uid
       /\ \A r \in user_books \ user_books' : r.user_id = statement'.uid
       /\ \A r \in user_books' \ user_books : r.user_id = statement'.uid]_vars

\* u2, who has a row, ran an UPDATE that named a row of u1: it affected no
\* row and the row of u1 is still there
C15_Witness ==
    /\ statement.uid = "u2"
    /\ statement.command = "UPDATE"
    /\ statement.rows = {}
    /\ ~statement.error
    /\ \E r \in user_books : r.user_id = "u1" /\ r.id = statement.where
    /\ \E r \in user_books : r.user_id = "u2"

\* C16: for a request with a search term the handler calls fetch at most 3
\* times, calls it no more once a call has returned an ok response, and in
\* the end returns an HTTP response, whatever the calls answer.
C16_RetriesAreBoundedAndAnswered ==
    /\ [](fetchCount <= maxRetries)
    /\ [](response.status = 200 => pc = "done")
    /\ [](pc = "done" => reply.status # 0)
    /\ [][fetchCount' > fetchCount => pc = "fetch" /\ response.status # 200]_vars
    /\ (pc = "fetch") ~> (pc = "done" /\ reply.status # 0)

\* three calls of fetch failed and the caller got the 503
C16_Witness ==
    /\ request.search # ""
    /\ fetchCount = maxRetries
    /\ attempt = maxRetries
    /\ pc = "done"
    /\ reply.status = 503

\* the state after the handler has answered a search with its results
Answered == pc = "done" /\ response.status = 200 /\ reply.status = 200

\* the filtered upstream results of the request just answered
Filtered == FilteredResults(data, request.search, request.type)

C18_SortedByDownloadCount ==
    Answered =>
        \A i, j \in 1..Len(reply.results) :
            i < j => reply.results[i].download_count >= reply.results[j].download_count

\* C19: every book returned has a readable format (plain text or HTML).
C19_OnlyReadableFormats ==
    Answered => \A n \in 1..Len(reply.results) : HasReadableFormat(reply.results[n])

\* the form is valid as described: a username of 3 to 20 letters, digits and
\* underscores, a well-formed email and a password of at least 6 characters
DescribedValid(form) ==
    /\ Len(form.username) >= 3 /\ Len(form.username) <= 20
    /\ \A p \in 0..(Len(form.username) - 1) : IsWord(CharAt(form.username, p))
    /\ IsEmail(form.email)
    /\ Len(form.password) >= 6

\* C20: handleSignUp calls supabase.auth.signUp only with a form that is
\* valid as described; with any other form it shows "Validation Error" and
\* makes no call.
C20_SignUpOnlyWhenValid ==
    [][/\ signUps' # signUps => DescribedValid(formData)
       /\ (~authIsLoading /\ formData' = formData /\ ~DescribedValid(formData)) =>
              authToast' = "Validation Error" /\ signUps' = signUps]_vars

\* the numeral a matched heading is written with: the matched text without
\* its leading white space, its word "chapter" and its closing period
NumeralWritten(text) ==
    LET Undotted(t) ==
            IF CharAt(t, Len(t) - 1) = "." THEN Slice(t, 0, Len(t) - 1) ELSE t
        Unworded(t) ==
            IF LitAt(t, 0, "chapter", TRUE) THEN Trim(Slice(t, 7, Len(t))) ELSE t
    IN  Undotted(Unworded(Trim(text)))

\* the offsets of the line breaks of doc that are followed by a line that is
\* exactly one of the headings
WrittenAt(doc, headings) ==
    {k \in 0..(Len(doc) - 1) :
        /\ CharAt(doc, k) = "\n"
        /\ \E h \in headings : HeadingLineAt(doc, k + 1, h)}

HeadingsWith(numeral) == {"CHAPTER " \o numeral, "Chapter " \o numeral}

\* the line break at offset k is in the white space a candidate begins with
IsCandidate(k) ==
    \E n \in 1..Len(allMatches) :
        /\ allMatches[n].index <= k
        /\ k < allMatches[n].index + Len(allMatches[n].pattern)

\* C21: for a decimal identifier N every candidate is written with the
\* decimal digits of N, and when the document has headings of that chapter in
\* Roman form only the jump reports Chapter Not Found; for a Roman identifier
\* every heading line "CHAPTER r" (r the numeral) and every heading line
\* "CHAPTER n" (n its decimal value) is a candidate.
C21_HeadingFormsSearched ==
    (handler = "jumpToChapter" /\ toast.title \in {"Chapter Found", "Chapter Not Found"}) =>
        LET Decimal(n) ==
                /\ \A m \in 1..Len(allMatches) :
                       NumeralWritten(allMatches[m].pattern) = n
                /\ WrittenAt(fullBookContent,
                             HeadingsWith(n) \cup {n, n \o "."}) = {}
                       => toast.title = "Chapter Not Found"
            Roman(r, n) ==
                /\ \A k \in WrittenAt(fullBookContent, HeadingsWith(r)) : IsCandidate(k)
                /\ \A k \in WrittenAt(fullBookContent, HeadingsWith(n)) : IsCandidate(k)
                /\ \A m \in 1..Len(allMatches) :
                       ToUpperCase(NumeralWritten(allMatches[m].pattern)) \in {r, n}
        IN  IF romanNumeral = "" THEN Decimal(NumberToString(chapterNum))
            ELSE Roman(romanNumeral, NumberToString(chapterNum))

\* identifier 3 on a document whose third chapter is headed "Chapter III":
\* nothing is a candidate and the chapter is not found
C21_Witness ==
    /\ handler = "jumpToChapter"
    /\ query = "3"
    /\ romanNumeral = ""
    /\ chapterNum = 3
    /\ WrittenAt(fullBookContent, {"Chapter III"}) # {}
    /\ allMatches = <<>>
    /\ toast.title = "Chapter Not Found"

\* a step in which fetch is called
Attempted == fetchCount' = fetchCount + 1

\* the call of that step did not return a status below 500: it returned a
\* 5xx status or it threw (response then keeps the 5xx of an earlier pass, or
\* is still unassigned)
FailedForRetry == Attempted /\ (response'.status = 0 \/ response'.status >= 500)

\* C22: fetch is never called again after a response with a status below
\* 500; a call that returned a 5xx status or threw is followed by the wait and
\* then by another call when fewer than 3 calls have been made, and by no wait
\* when it was the third; every call after the first comes right after a wait.
C22_RetryPolicy ==
    /\ [][Attempted => response.status = 0 \/ response.status >= 500]_vars
    /\ []((response.status > 0 /\ response.status < 500) => pc = "done")
    /\ [][FailedForRetry =>
              IF fetchCount' < maxRetries THEN pc' = "backoff" ELSE pc' = "done"]_vars
    /\ [][(pc' = "fetch" /\ pc # "fetch") =>
              \/ pc = "backoff" /\ attempt' = attempt + 1 /\ attempt' <= maxRetries
              \/ pc \in {"idle", "done"} /\ attempt' = 1 /\ fetchCount' = 0]_vars
    /\ [][Attempted => attempt = fetchCount + 1]_vars
    /\ [](pc = "backoff" => fetchCount < maxRetries)
    /\ \A n \in 1..(maxRetries - 1) :
           (pc = "backoff" /\ fetchCount = n) ~> (fetchCount = n + 1)

\* the third call of fetch is about to be made, after two waits: the calls
\* before it returned 500
C22_Witness ==
    /\ pc = "fetch"
    /\ attempt = maxRetries
    /\ fetchCount = maxRetries - 1
    /\ response.status = 500

\* the handler has answered a request that made it call fetch
AnsweredSearch == pc = "done" /\ fetchCount > 0

\* C23: results are returned only in the step in which a call of fetch
\* returns an ok response, and they are the results of that response; when
\* the last call returned a status that is not ok or threw, the answer is
\* HTTP 503 with an error message, isTemporary = true and no results.
C23_ResultsOnlyFromLastOkResponse ==
    /\ [][(reply'.status = 200 /\ reply.status # 200 /\ request'.method # "OPTIONS") =>
              /\ Attempted
              /\ response.status # 200
              /\ response'.status = 200
              /\ reply'.results = DeduplicatedResults(
                                      FilteredResults(data', request.search, request.type))]_vars
    /\ []((AnsweredSearch /\ reply.results # <<>>) => Answered)
    /\ []((AnsweredSearch /\ response.status # 200) =>
              /\ reply.status = 503
              /\ reply.error # ""
              /\ reply.isTemporary
              /\ reply.results = <<>>)
    /\ [](reply.isTemporary => reply.status = 503)

\* the only call of fetch returned 404 and the caller got the 503
C23_Witness ==
    /\ AnsweredSearch
    /\ fetchCount = 1
    /\ response.status = 404
    /\ reply.status = 503
    /\ reply.isTemporary
    /\ reply.error # ""

\* text holds the search term of the request, whatever the case of the letters
HoldsTerm(text) == IndexOfCI(text, request.search, 0) # -1

\* one of the authors of item has a name that holds the search term
AuthorHoldsTerm(item) == \E a \in 1..Len(item.authors) : HoldsTerm(item.authors[a])

\* C24: the books returned are upstream results.  For a title search each has
\* a title that holds the search term and no upstream title that holds it is
\* missing; for an author search each has an author whose name holds the
\* term and no upstream book with such an author is missing, unless no
\* upstream result has such an author: then the filter keeps every upstream
\* result.
C24_FilteredBySearchType ==
    Answered =>
        /\ \A m \in 1..Len(reply.results) :
               \E n \in 1..Len(data) : reply.results[m] = data[n]
        /\ request.type = "title" =>
               /\ \A m \in 1..Len(reply.results) : HoldsTerm(reply.results[m].title)
               /\ \A n \in 1..Len(data) :
                      HoldsTerm(data[n].title) =>
                          /\ \E k \in 1..Len(Filtered) : Filtered[k] = data[n]
                          /\ \E m \in 1..Len(reply.results) :
                                 BookKey(reply.results[m]) = BookKey(data[n])
               /\ \A k \in 1..Len(Filtered) : HoldsTerm(Filtered[k].title)
        /\ request.type = "author" =>
               IF \E n \in 1..Len(data) : AuthorHoldsTerm(data[n])
               THEN /\ \A m \in 1..Len(reply.results) : AuthorHoldsTerm(reply.results[m])
                    /\ \A k \in 1..Len(Filtered) : AuthorHoldsTerm(Filtered[k])
                    /\ \A n \in 1..Len(data) :
                           AuthorHoldsTerm(data[n]) =>
                               /\ \E k \in 1..Len(Filtered) : Filtered[k] = data[n]
                               /\ \E m \in 1..Len(reply.results) :
                                      BookKey(reply.results[m]) = BookKey(data[n])
               ELSE /\ Filtered = data
                    /\ \A n \in 1..Len(data) :
                           \E m \in 1..Len(reply.results) :
                               BookKey(reply.results[m]) = BookKey(data[n])

\* an author search for a name no upstream result has: both upstream books
\* are returned
C24_Witness ==
    /\ Answered
    /\ request.type = "author"
    /\ Len(data) = 2
    /\ \A n \in 1..Len(data) : ~AuthorHoldsTerm(data[n])
    /\ reply.results = data

============================================================================
